---- MODULE Spec2Model ----
(***************************************************************************)
(* Account-hierarchy resolution of the Google Ads extraction pipeline:     *)
(* account_structure (src/src/account.py) expands manager accounts from a  *)
(* FIFO work list, one GoogleAdsService.search per popped id, and          *)
(* parse_account_hierarchy flattens the collected parent -> children       *)
(* mapping.  collect_data / main (src/src/main.py) run the steps that      *)
(* follow the resolution.                                                  *)
(*                                                                         *)
(* A customer_client row is modelled by the three fields the control flow  *)
(* reads: id, level, manager.  The descriptive fields (name, currency,     *)
(* time zone, resource name) are copied through unchanged by the code and  *)
(* are left out.                                                           *)
(*                                                                         *)
(* Spec is one run of main: resolution, the snapshots of collect_data, the *)
(* loaders of populate_db (src/src/db.py).  SpecRuns is several runs over  *)
(* the same reports directory tree and the same store.  SpecCalls is two   *)
(* account_structure calls on one client, their steps interleaved.         *)
(***************************************************************************)
EXTENDS Integers, Sequences, FiniteSets, TLC

(* ---------------------------------------------------------------- bounds *)
\* account ids an arbitrary query capability may mention: 1..MaxId
MaxId == 3
\* rows an arbitrary query capability may return in all during one run
MaxRows == 4
\* account ids of a well-formed hierarchy: 1..MaxNode
MaxNode == 4
\* direct children one account of a well-formed hierarchy may have
MaxChildren == 2
\* outcomes of the per-process randomisation of hash(): seeds 0..MaxSeed
MaxSeed == 1
\* ctypes.c_uint32 keeps 32 bits; the model keeps ids below IdSpace
IdSpace == 65536
\* db.BATCH_SIZE is 2000; the model commits metrics in batches of BATCH_SIZE rows
BATCH_SIZE == 2
\* pipeline runs against the same reports directory tree and the same store
MaxRuns == 2
\* the counter values a metrics row may report: 1..MaxVolume
MaxVolume == 2
\* days of one month (one reports directory per month)
DaysPerMonth == 2

Ids == 1..MaxId
Nodes == 1..MaxNode

\* rows of the query "... FROM customer_client WHERE customer_client.level <= 1"
Levels == {0, 1}
Rows == [id : Ids, level : Levels, manager : BOOLEAN]

VARIABLES
    service,                        \* the query capability behind client.get_service
    login_arg,                      \* the login_account_id argument of the caller
    login_account_id,               \* the local after the conversion to int; 0 before
    pc,                             \* position in main / collect_data / account_structure
    unprocessed_account_ids,        \* FIFO work list
    customer_ids_to_child_accounts, \* parent id -> rows of its children, in arrival order
    root_account_client,            \* << >> for None, else <<row>>
    account_id,                     \* id popped for the query in progress (0: none yet)
    fetched,                        \* rows of the current response consumed so far
    rows_served,                    \* rows of all responses consumed so far
    accounts,                       \* the list account_structure returns
    outcome,                        \* how account_structure ended
    queries,                        \* customer ids passed to search, in call order
    level0_ids_seen,                \* ids of the level-0 rows of all responses so far
    snapshots,                      \* snapshot files written by save in this run
    exit_code,                      \* process exit status (-1 while running)
    run,                            \* number of the pipeline run (process)
    today,                          \* day number of datetime.now() in this run
    volume,                         \* the counter value metrics rows report in this run
    hash_seed,                      \* hash randomisation of this process; -1 until used
    step_queries,                   \* customer ids the latest completed extraction step queried
    disk,                           \* reports tree: <<year_month, file>> -> content
    store,                          \* database: table -> (id -> row)
    load_state,                     \* populate_db of this run: idle, started, done, failed
    platform_rows,                  \* kind -> (metric key -> counter the platform last reported)
    calls,                          \* account_structure calls running side by side
    n_pc,                           \* position in handle_global_exception / send_with_retry
    environ,                        \* os.environ: the variables that are set, with their values
    tokens,                         \* the token list send_with_retry was given
    retry,                          \* its retry counter
    sent,                           \* the tokens send_func was called with, in call order
    raised,                         \* what the latest send_func call raised ("None": nothing)
    send_result,                    \* what send_with_retry returned or raised ("None": running)
    wrapped,                        \* the call of a function under handle_global_exception
    g_pc,                           \* position in insert_geo_targets
    df,                             \* the parsed CSV insert_geo_targets was given
    geo_targets,                    \* the GeoTargets table: id -> row
    geo_at_call,                    \* the table as it was when the call began
    geo_batches,                    \* the batches still to insert
    geo_writes,                     \* insert transactions committed by the call
    geo_calls,                      \* number of the insert_geo_targets call
    b_pc,                           \* state of a generator made by utils.batched
    iterable,                       \* the sequence batched was called with
    batch_n,                        \* the n batched was called with
    it,                             \* what the iterator over iterable has left
    yielded,                        \* the batches yielded so far
    b_error                         \* what the generator raised ("None": nothing)

vars == <<service, login_arg, login_account_id, pc, unprocessed_account_ids,
          customer_ids_to_child_accounts, root_account_client, account_id,
          fetched, rows_served, accounts, outcome, queries, level0_ids_seen, snapshots,
          exit_code, run, today, volume, hash_seed, step_queries, disk, store,
          load_state, platform_rows, calls, n_pc, environ, tokens, retry, sent,
          raised, send_result, wrapped, g_pc, df, geo_targets, geo_at_call,
          geo_batches, geo_writes, geo_calls, b_pc, iterable, batch_n, it, yielded,
          b_error>>

(* ------------------------------------------------------ query capability *)
SeqRange(s) == {s[i] : i \in 1..Len(s)}

\* sequences without repetition over S, of length at most k
RECURSIVE DistinctSeqs(_, _)
DistinctSeqs(S, k) ==
    IF k = 0 THEN {<< >>}
    ELSE LET shorter == DistinctSeqs(S, k - 1)
         IN  shorter \cup UNION {{Append(t, x) : x \in S \ SeqRange(t)} : t \in shorter}

\* the least set that contains S and is closed under the edges E
RECURSIVE Closure(_, _)
Closure(E, S) ==
    LET T == S \cup {e[2] : e \in {d \in E : d[1] \in S}}
    IN  IF T = S THEN S ELSE Closure(E, T)

\* what one account of a well-formed hierarchy can be: a leaf account, or a manager
\* with an ordered list of direct children.  Children are numbered after their
\* manager, so the hierarchy is acyclic; an account may be listed by two managers.
Entries(n) ==
    {[manager |-> FALSE, children |-> << >>]} \cup
    {[manager |-> TRUE, children |-> c] :
        c \in DistinctSeqs((n + 1)..MaxNode, MaxChildren)}

RECURSIVE HierarchiesUpTo(_)
HierarchiesUpTo(n) ==
    IF n = 0 THEN {<< >>}
    ELSE {Append(h, e) : h \in HierarchiesUpTo(n - 1), e \in Entries(n)}

HierarchyEdges(h) ==
    UNION {{<<n, c>> : c \in SeqRange(h[n].children)} : n \in DOMAIN h}

\* hierarchies rooted at account 1; accounts outside the root's hierarchy are inert
Hierarchies ==
    {h \in HierarchiesUpTo(MaxNode) :
        \A n \in Nodes \ Closure(HierarchyEdges(h), {1}) : ~h[n].manager}

\* the scenario of the specification: 100 manages 101 and 102, 101 manages 201, 202
ScenarioIds == {100, 101, 102, 201, 202}
Scenario ==
    [n \in ScenarioIds |->
        IF n = 100 THEN [manager |-> TRUE, children |-> <<101, 102>>]
        ELSE IF n = 101 THEN [manager |-> TRUE, children |-> <<201, 202>>]
        ELSE [manager |-> FALSE, children |-> << >>]]

\* the responses of a capability that serves hierarchy h: for the queried account
\* its level-0 self row, then one level-1 row per direct child
ResponsesOf(h) ==
    [n \in DOMAIN h |->
        <<[id |-> n, level |-> 0, manager |-> h[n].manager]>> \o
        [i \in 1..Len(h[n].children) |->
            [id |-> h[n].children[i], level |-> 1,
             manager |-> h[h[n].children[i]].manager]]]

\* service.kind = "any": every response is an arbitrary sequence of rows, decided
\* row by row as the response is iterated, at most MaxRows rows in the whole run;
\* service.kind = "hierarchy": service.rows[id] is the response for customer id
AnyService == [kind |-> "any", rows |-> << >>]
HierarchyService(h) == [kind |-> "hierarchy", rows |-> ResponsesOf(h)]

\* a capability that serves a hierarchy knows the accounts of that hierarchy; a
\* query for any other customer id can only fail
Known(svc, aid) == svc.kind = "any" \/ aid \in DOMAIN svc.rows

\* the rows the response for customer id aid can yield after n of its rows were
\* consumed, total rows having been consumed in the run
NextRows(svc, aid, n, total) ==
    IF svc.kind = "any"
    THEN IF total < MaxRows THEN Rows ELSE {}
    ELSE IF Known(svc, aid) /\ n < Len(svc.rows[aid])
         THEN {svc.rows[aid][n + 1]} ELSE {}

\* the response for customer id aid can end after n rows
Exhausted(svc, aid, n) ==
    IF svc.kind = "any" THEN TRUE ELSE Known(svc, aid) /\ n = Len(svc.rows[aid])

(* ------------------------------------------------------ account_structure *)
None == << >>

\* values of the login_account_id argument: an int, or a str given as the
\* sequence of its characters
PyInt(n) == [type |-> "int", val |-> n]
PyStr(chars) == [type |-> "str", val |-> chars]

Digits == <<"0", "1", "2", "3", "4", "5", "6", "7", "8", "9">>
IsDigit(c) == \E i \in 1..Len(Digits) : Digits[i] = c
DigitValue(c) == (CHOOSE i \in 1..Len(Digits) : Digits[i] = c) - 1

\* str.strip() for blanks
RECURSIVE LStrip(_)
LStrip(s) == IF s # << >> /\ Head(s) = " " THEN LStrip(Tail(s)) ELSE s
RECURSIVE RStrip(_)
RStrip(s) ==
    IF s # << >> /\ s[Len(s)] = " " THEN RStrip(SubSeq(s, 1, Len(s) - 1)) ELSE s

\* the value of a run of decimal digits and underscores, read left to right
RECURSIVE DecimalValue(_, _)
DecimalValue(s, acc) ==
    IF s = << >> THEN acc
    ELSE IF Head(s) = "_" THEN DecimalValue(Tail(s), acc)
    ELSE DecimalValue(Tail(s), 10 * acc + DigitValue(Head(s)))

\* int(s) of a str: blanks around are dropped, one sign is allowed, then decimal
\* digits, single underscores between digits allowed; anything else is a
\* ValueError (ok = FALSE)
int(s) ==
    LET t == RStrip(LStrip(s))
        signed == t # << >> /\ Head(t) \in {"+", "-"}
        body == IF signed THEN Tail(t) ELSE t
        wellformed ==
            /\ body # << >>
            /\ IsDigit(body[1]) /\ IsDigit(body[Len(body)])
            /\ \A i \in 1..Len(body) : IsDigit(body[i]) \/ body[i] = "_"
            /\ \A i \in 1..(Len(body) - 1) : ~(body[i] = "_" /\ body[i + 1] = "_")
    IN  IF ~wellformed THEN [ok |-> FALSE, val |-> 0]
        ELSE [ok |-> TRUE,
              val |-> IF signed /\ Head(t) = "-"
                      THEN 0 - DecimalValue(body, 0) ELSE DecimalValue(body, 0)]

\* "if isinstance(login_account_id, str): login_account_id = int(...)"
ToAccountId(arg) == IF arg.type = "str" THEN int(arg.val) ELSE [ok |-> TRUE, val |-> arg.val]

\* a level-0 row is the queried account itself
IsSelfRow(row) == row.level = 0

\* (mutation of CaptureRoot: every level-0 row replaces the record)
CaptureRoot_LatestWins(root, row) == <<row>>

\* keep the first level-0 row seen
CaptureRoot(root, row) == IF root = None THEN <<row>> ELSE root

\* record row as a child of the account being queried
AppendChild(map, aid, row) ==
    IF aid \in DOMAIN map
    THEN [map EXCEPT ![aid] = Append(@, row)]
    ELSE [k \in DOMAIN map \cup {aid} |-> IF k = aid THEN <<row>> ELSE map[k]]

\* (mutation of ShouldEnqueue: the key test is inverted, so no child is expanded)
ShouldEnqueue_KeyTestInverted(map, row) ==
    row.manager /\ row.id \in DOMAIN map /\ row.level = 1

\* a manager child is expanded unless it is already a key of the mapping
ShouldEnqueue(map, row) ==
    row.manager /\ row.id \notin DOMAIN map /\ row.level = 1

GAccount(row) == [id |-> row.id, manager |-> row.manager, level |-> row.level]

\* (mutation of parse_account_hierarchy: the account is appended after the loop
\* over its children instead of before it)
RECURSIVE parse_account_hierarchy_PostOrder(_, _, _)
parse_account_hierarchy_PostOrder(account_client, map, depth) ==
    LET RECURSIVE Extend(_, _)
        Extend(acc, i) ==
            IF i > Len(map[account_client.id]) THEN acc
            ELSE Extend(acc \o parse_account_hierarchy_PostOrder(
                                   map[account_client.id][i], map, depth + 1),
                        i + 1)
    IN  IF account_client.id \in DOMAIN map
        THEN Extend(<< >>, 1) \o <<GAccount(account_client)>>
        ELSE <<GAccount(account_client)>>

RECURSIVE parse_account_hierarchy(_, _, _)
parse_account_hierarchy(account_client, map, depth) ==
    LET RECURSIVE Extend(_, _)
        Extend(acc, i) ==
            IF i > Len(map[account_client.id]) THEN acc
            ELSE Extend(acc \o parse_account_hierarchy(
                                   map[account_client.id][i], map, depth + 1),
                        i + 1)
    IN  IF account_client.id \in DOMAIN map
        THEN Extend(<<GAccount(account_client)>>, 1)
        ELSE <<GAccount(account_client)>>

\* the value of the depth parameter in the call that emitted each element
RECURSIVE CallDepths(_, _, _)
CallDepths(account_client, map, depth) ==
    LET RECURSIVE Extend(_, _)
        Extend(acc, i) ==
            IF i > Len(map[account_client.id]) THEN acc
            ELSE Extend(acc \o CallDepths(map[account_client.id][i], map, depth + 1),
                        i + 1)
    IN  IF account_client.id \in DOMAIN map
        THEN Extend(<<depth>>, 1)
        ELSE <<depth>>

MapEdges(map) ==
    UNION {{<<p, map[p][i].id>> : i \in 1..Len(map[p])} : p \in DOMAIN map}

\* the recursion from account_client never returns: it reaches an account that
\* is among its own descendants in the mapping (Python ends it with RecursionError)
Diverges(account_client, map) ==
    \E n \in Closure(MapEdges(map), {account_client.id}) :
        \E c \in {e[2] : e \in {d \in MapEdges(map) : d[1] = n}} :
            n \in Closure(MapEdges(map), {c})

(* ------------------------------------------------------------ collect_data *)
\* the extraction steps after the accounts snapshot, in the order of collect_data
Steps == <<"campaigns", "ad_groups", "ads", "general_metrics",
           "gender_metrics", "age_metrics", "geo_metrics">>
StepNames == SeqRange(Steps)
StepIndex(name) == CHOOSE i \in 1..Len(Steps) : Steps[i] = name
AfterStep(name) ==
    IF StepIndex(name) = Len(Steps) THEN "populate_db" ELSE Steps[StepIndex(name) + 1]
MetricsSteps == {"general_metrics", "gender_metrics", "age_metrics", "geo_metrics"}

\* what the platform holds for customer a: one campaign with one ad group and one
\* ad, and per metrics kind one row a day for that campaign (the other segments of
\* a metrics key - device, gender, age range, country - take one value each)
CampaignId(a) == 10 * a + 1
AdGroupId(a) == 10 * CampaignId(a) + 1
AdId(a) == 10 * AdGroupId(a) + 1
MetricKey(a, day) == [campaign_id |-> CampaignId(a), date |-> day]

\* hash(f"{campaign_id}_..._{date}"): str hashes are keyed by the seed the
\* interpreter draws at start.  Seed 0 stands for a process whose hashes of the keys
\* at hand differ in the low bits, a seed above 0 for one where keys agree on the
\* low bits although their hashes differ.
KeyCode(key) == key.campaign_id * 8 + key.date
hash(seed, key) ==
    IF seed = 0 THEN KeyCode(key)
    ELSE IdSpace * KeyCode(key) + (KeyCode(key) % (seed + 2)) + seed

\* ctypes.c_uint32(h).value
c_uint32(h) == h % IdSpace

\* (mutation of account_ids_of: manager accounts are left out)
account_ids_of_NonManagersOnly(accts) ==
    LET kept == SelectSeq(accts, LAMBDA a : ~a.manager)
    IN  [i \in 1..Len(kept) |-> kept[i].id]

\* account_ids = [account.id for account in accounts]            (main.py:43)
account_ids_of(accts) == [i \in 1..Len(accts) |-> accts[i].id]

\* "for account in accounts: if account.manager: continue"  (metrics.py:258-262)
metrics_account_ids(accts) ==
    LET kept == SelectSeq(accts, LAMBDA a : ~a.manager)
    IN  [i \in 1..Len(kept) |-> kept[i].id]

\* the customer ids an extraction step queries, in order
QueriedBy(step, accts) ==
    IF step \in MetricsSteps THEN metrics_account_ids(accts) ELSE account_ids_of(accts)

\* the records an extraction step builds from the response for customer a
RecordsFor(step, a, day, vol, seed) ==
    IF step = "campaigns" THEN <<[id |-> CampaignId(a), account_id |-> a]>>
    ELSE IF step = "ad_groups"
    THEN <<[id |-> AdGroupId(a), campaign_id |-> CampaignId(a), account_id |-> a]>>
    ELSE IF step = "ads"
    THEN <<[id |-> AdId(a), ad_group_id |-> AdGroupId(a),
            campaign_id |-> CampaignId(a), account_id |-> a]>>
    ELSE <<[id |-> c_uint32(hash(seed, MetricKey(a, day))),
            campaign_id |-> CampaignId(a), date |-> day, impressions |-> vol]>>

\* the list an extraction step returns: the records of its queries, in query order
RECURSIVE Extracted(_, _, _, _, _)
Extracted(step, ids, day, vol, seed) ==
    IF ids = << >> THEN << >>
    ELSE RecordsFor(step, Head(ids), day, vol, seed)
         \o Extracted(step, Tail(ids), day, vol, seed)

\* year_month = today.strftime("%Y-%m")                       (main.py:102-103)
year_month(day) == (day - 1) \div DaysPerMonth + 1

\* os.path.join(reports_dir, name + ".json")
Path(day, name) == <<year_month(day), name>>

\* (mutation of save: an existing file is left as it is)
save_KeepsExisting(files, path, data) ==
    IF path \in DOMAIN files THEN files
    ELSE [q \in DOMAIN files \cup {path} |-> IF q = path THEN data ELSE files[q]]

\* save: open(path, "w") and dump, whether or not the file exists (main.py:24-30)
save(files, path, data) ==
    [q \in DOMAIN files \cup {path} |-> IF q = path THEN data ELSE files[q]]

(* ------------------------------------------------------------- populate_db *)
\* the loaders in the order of populate_db; each reads the snapshot of its name
Loaders == <<"accounts", "campaigns", "ad_groups", "ads", "general_metrics",
             "gender_metrics", "age_metrics", "geo_metrics">>
LoaderNames == {"insert_" \o Loaders[i] : i \in 1..Len(Loaders)}
LoaderPc(i) == "insert_" \o Loaders[i]
LoaderIndex(name) == CHOOSE i \in 1..Len(Loaders) : LoaderPc(i) = name
AfterLoader(name) ==
    IF LoaderIndex(name) = Len(Loaders) THEN "exited"
    ELSE LoaderPc(LoaderIndex(name) + 1)
EmptyStore == [t \in SeqRange(Loaders) |-> << >>]

\* the keyword parameters Base.to_dict accepts besides self  (models.py:53)
to_dict_keywords == {}

\* x.to_dict(exclude_cols=["id"]): a call with a keyword the method does not
\* take raises TypeError (ok = FALSE)
update_values(record) ==
    IF "exclude_cols" \in to_dict_keywords
    THEN [ok |-> TRUE, values |-> record]
    ELSE [ok |-> FALSE, values |-> record]

\* one pass of "for record in ...": select by id, then update or insert.  The
\* statements of one transaction see each other's rows.
upsert(table, record) ==
    IF record.id \in DOMAIN table
    THEN IF update_values(record).ok
         THEN [ok |-> TRUE,
               table |-> [table EXCEPT ![record.id] = update_values(record).values]]
         ELSE [ok |-> FALSE, table |-> table]
    ELSE [ok |-> TRUE,
          table |-> [k \in DOMAIN table \cup {record.id} |->
                        IF k = record.id THEN record ELSE table[k]]]

\* "with engine.begin() as connection: for record in records": commit at the end,
\* roll back when a statement raises
RECURSIVE Statements(_, _)
Statements(table, records) ==
    IF records = << >> THEN [ok |-> TRUE, table |-> table]
    ELSE LET r == upsert(table, Head(records))
         IN  IF r.ok THEN Statements(r.table, Tail(records)) ELSE r
Transaction(table, records) ==
    IF Statements(table, records).ok THEN Statements(table, records)
    ELSE [ok |-> FALSE, table |-> table]

\* utils.batched(iterable, n): chunks of n, the last one shorter
RECURSIVE batched(_, _)
batched(records, n) ==
    IF records = << >> THEN << >>
    ELSE IF Len(records) <= n THEN <<records>>
    ELSE <<SubSeq(records, 1, n)>> \o batched(SubSeq(records, n + 1, Len(records)), n)

\* insert_metrics: one transaction per batch; batches before a failing one stay
\* committed
RECURSIVE Batches(_, _)
Batches(table, batches) ==
    IF batches = << >> THEN [ok |-> TRUE, table |-> table]
    ELSE LET r == Transaction(table, Head(batches))
         IN  IF r.ok THEN Batches(r.table, Tail(batches)) ELSE r

\* (mutation of Loaded: a metrics snapshot is written in one transaction too)
Loaded_OneTransaction(name, table, records) == Transaction(table, records)

\* what a loader makes of a table and the records of its snapshot
Loaded(name, table, records) ==
    IF name \in MetricsSteps THEN Batches(table, batched(records, BATCH_SIZE))
    ELSE Transaction(table, records)

(* -------------------------------------------------------------------- Init *)
\* arguments that are no plain non-negative number: negative ones, text that int()
\* rejects, text that int() accepts in spite of blanks, sign or underscore
OtherArgs ==
    {PyInt(-100), PyStr(<<"-", "1", "0", "0">>), PyStr(<<"a", "b", "c">>),
     PyStr(<< >>), PyStr(<<"1", "0", "0", ".", "0">>), PyStr(<<"-">>),
     PyStr(<<" ", "+", "1", "_", "0", "0", " ">>), PyStr(<<"1", "_", "_", "0">>)}

\* no function runs under handle_global_exception, nothing is sent
NoWrapped == [active |-> FALSE, caught |-> FALSE, returned |-> "None",
              notifications |-> 0, escaped |-> "None", exit_status |-> -1]
NotificationIdle ==
    /\ n_pc = "idle"
    /\ environ = << >>
    /\ tokens = << >>
    /\ retry = 0
    /\ sent = << >>
    /\ raised = "None"
    /\ send_result = "None"
    /\ wrapped = NoWrapped

GeoIdle ==
    /\ g_pc = "idle"
    /\ df = << >>
    /\ geo_targets = << >>
    /\ geo_at_call = << >>
    /\ geo_batches = << >>
    /\ geo_writes = 0
    /\ geo_calls = 0

BatchingIdle ==
    /\ b_pc = "idle"
    /\ iterable = << >>
    /\ batch_n = 1
    /\ it = << >>
    /\ yielded = << >>
    /\ b_error = "None"

SideIdle == NotificationIdle /\ GeoIdle /\ BatchingIdle

InitLocals ==
    /\ pc = "start"
    /\ login_account_id = 0
    /\ unprocessed_account_ids = << >>
    /\ customer_ids_to_child_accounts = << >>
    /\ root_account_client = None
    /\ account_id = 0
    /\ fetched = 0
    /\ rows_served = 0
    /\ accounts = << >>
    /\ outcome = "running"
    /\ queries = << >>
    /\ level0_ids_seen = {}
    /\ snapshots = {}
    /\ exit_code = -1
    /\ hash_seed = -1
    /\ step_queries = << >>
    /\ load_state = "idle"

\* no account_structure call besides the one of collect_data
NoCalls == [thread |-> << >>, frame |-> << >>, log |-> << >>]

\* first run on the first day, nothing on disk, empty tables
InitWorld ==
    /\ run = 1
    /\ today = 1
    /\ volume = 1
    /\ disk = << >>
    /\ store = EmptyStore
    /\ platform_rows = [k \in MetricsSteps |-> << >>]
    /\ calls = NoCalls

\* the capability is arbitrary (the ids are interchangeable, the root is id 1),
\* or serves a well-formed hierarchy rooted at 1, or serves the scenario
Init ==
    /\ \/ /\ service = AnyService
          /\ login_arg = PyInt(1)
       \/ /\ service \in {HierarchyService(h) : h \in Hierarchies}
          /\ login_arg = PyStr(<<"1">>)
       \/ /\ service = HierarchyService(Scenario)
          /\ login_arg \in {PyStr(<<"1", "0", "0">>)} \cup OtherArgs
    /\ InitLocals
    /\ InitWorld
    /\ SideIdle

(* ----------------------------------------------------------------- actions *)
inputs == <<service, login_arg>>
history == <<rows_served, queries, level0_ids_seen>>
world == <<run, today, volume, disk, store, platform_rows>>
pipeline == <<hash_seed, step_queries, load_state>>
notification == <<n_pc, environ, tokens, retry, sent, raised, send_result, wrapped>>
geo == <<g_pc, df, geo_targets, geo_at_call, geo_batches, geo_writes, geo_calls>>
batching == <<b_pc, iterable, batch_n, it, yielded, b_error>>
side == <<notification, geo, batching>>

\* a str argument is converted and the work list starts with the root id
\*                                                              (lines 31-52)
Start ==
    /\ pc = "start"
    /\ ToAccountId(login_arg).ok
    /\ login_account_id' = ToAccountId(login_arg).val
    /\ unprocessed_account_ids' = <<ToAccountId(login_arg).val>>
    /\ pc' = "while"
    /\ UNCHANGED <<inputs, calls, side, world, pipeline, history, customer_ids_to_child_accounts,
                   root_account_client, account_id, fetched, accounts, outcome,
                   snapshots, exit_code>>

\* int() raises ValueError: caught nowhere, the process ends with status 1
StartFails ==
    /\ pc = "start"
    /\ ~ToAccountId(login_arg).ok
    /\ outcome' = "value_error"
    /\ pc' = "exited"
    /\ exit_code' = 1
    /\ UNCHANGED <<inputs, calls, side, world, pipeline, history, login_account_id, unprocessed_account_ids,
                   customer_ids_to_child_accounts, root_account_client, account_id,
                   fetched, accounts, snapshots>>

\* (mutation of Search: the id is taken from the end of the work list)
Search_PopsLast ==
    /\ pc = "while"
    /\ unprocessed_account_ids # << >>
    /\ account_id' = unprocessed_account_ids[Len(unprocessed_account_ids)]
    /\ unprocessed_account_ids' =
          SubSeq(unprocessed_account_ids, 1, Len(unprocessed_account_ids) - 1)
    /\ queries' = Append(queries, unprocessed_account_ids[Len(unprocessed_account_ids)])
    /\ fetched' = 0
    /\ pc' = "for"
    /\ UNCHANGED <<inputs, calls, side, world, pipeline, login_account_id,
                   customer_ids_to_child_accounts, root_account_client,
                   rows_served, level0_ids_seen, accounts, outcome, snapshots,
                   exit_code>>

\* while unprocessed_account_ids: pop(0) and search                (lines 56-60)
Search ==
    /\ pc = "while"
    /\ unprocessed_account_ids # << >>
    /\ account_id' = Head(unprocessed_account_ids)
    /\ unprocessed_account_ids' = Tail(unprocessed_account_ids)
    /\ queries' = Append(queries, Head(unprocessed_account_ids))
    /\ fetched' = 0
    /\ pc' = "for"
    /\ UNCHANGED <<inputs, calls, side, world, pipeline, login_account_id, customer_ids_to_child_accounts, root_account_client,
                   rows_served, level0_ids_seen, accounts, outcome, snapshots,
                   exit_code>>

\* (mutation of QueryFails: the failure is logged and the loop goes on with the
\* next id of the work list)
QueryFails_LoopGoesOn ==
    /\ pc = "for"
    /\ outcome' = "query_failed"
    /\ pc' = "while"
    /\ UNCHANGED <<inputs, calls, side, world, pipeline, login_account_id, history, unprocessed_account_ids,
                   customer_ids_to_child_accounts, root_account_client, account_id,
                   fetched, accounts, snapshots, exit_code>>

\* the query fails, at the call or while its rows are fetched: on a
\* GoogleAdsException handle_google_ads_exception logs and calls sys.exit(1); any
\* other exception is caught nowhere and ends the process with status 1 as well
QueryFails ==
    /\ pc = "for"
    /\ outcome' = "query_failed"
    /\ pc' = "exited"
    /\ exit_code' = 1
    /\ UNCHANGED <<inputs, calls, side, world, pipeline, login_account_id, history, unprocessed_account_ids,
                   customer_ids_to_child_accounts, root_account_client, account_id,
                   fetched, accounts, snapshots>>

\* (mutation of HandleRow: the "continue" of the level-0 branch is missing, so a
\* level-0 row is also recorded as a child)
HandleRow_NoContinue ==
    /\ pc = "for"
    /\ \E row \in NextRows(service, account_id, fetched, rows_served) :
        /\ fetched' = fetched + 1
        /\ rows_served' = rows_served + 1
        /\ IF IsSelfRow(row)
           THEN /\ root_account_client' = CaptureRoot(root_account_client, row)
                /\ level0_ids_seen' = level0_ids_seen \cup {row.id}
           ELSE UNCHANGED <<root_account_client, level0_ids_seen>>
        /\ LET map == AppendChild(customer_ids_to_child_accounts, account_id, row)
           IN  /\ customer_ids_to_child_accounts' = map
               /\ unprocessed_account_ids' =
                     IF ShouldEnqueue(map, row)
                     THEN Append(unprocessed_account_ids, row.id)
                     ELSE unprocessed_account_ids
    /\ UNCHANGED <<inputs, calls, side, world, pipeline, login_account_id, pc, account_id, queries, accounts, outcome, snapshots,
                   exit_code>>

\* one iteration of "for googleads_row in response"                (lines 64-82)
HandleRow ==
    /\ pc = "for"
    /\ \E row \in NextRows(service, account_id, fetched, rows_served) :
        /\ fetched' = fetched + 1
        /\ rows_served' = rows_served + 1
        /\ IF IsSelfRow(row)
           THEN /\ root_account_client' = CaptureRoot(root_account_client, row)
                /\ level0_ids_seen' = level0_ids_seen \cup {row.id}
                /\ UNCHANGED <<customer_ids_to_child_accounts,
                               unprocessed_account_ids>>
           ELSE LET map == AppendChild(customer_ids_to_child_accounts, account_id, row)
                IN  /\ customer_ids_to_child_accounts' = map
                    /\ unprocessed_account_ids' =
                          IF ShouldEnqueue(map, row)
                          THEN Append(unprocessed_account_ids, row.id)
                          ELSE unprocessed_account_ids
                    /\ UNCHANGED <<root_account_client, level0_ids_seen>>
    /\ UNCHANGED <<inputs, calls, side, world, pipeline, login_account_id, pc, account_id, queries, accounts, outcome, snapshots,
                   exit_code>>

\* the response is exhausted: back to the while test
EndResponse ==
    /\ pc = "for"
    /\ Exhausted(service, account_id, fetched)
    /\ pc' = "while"
    /\ UNCHANGED <<inputs, calls, side, world, pipeline, login_account_id, history, unprocessed_account_ids,
                   customer_ids_to_child_accounts, root_account_client, account_id,
                   fetched, accounts, outcome, snapshots, exit_code>>

\* the work list is empty and a root was captured: flatten, return (lines 84-92)
Return ==
    /\ pc = "while"
    /\ unprocessed_account_ids = << >>
    /\ root_account_client # None
    /\ ~Diverges(root_account_client[1], customer_ids_to_child_accounts)
    /\ accounts' = parse_account_hierarchy(root_account_client[1],
                                           customer_ids_to_child_accounts, 0)
    /\ outcome' = "returned"
    /\ pc' = "save_accounts"
    /\ UNCHANGED <<inputs, calls, side, world, pipeline, login_account_id, history, unprocessed_account_ids,
                   customer_ids_to_child_accounts, root_account_client, account_id,
                   fetched, snapshots, exit_code>>

\* the flattening recurses without end: RecursionError leaves account_structure
\* (it is no GoogleAdsException) and main, and the process ends with status 1
RecursionFails ==
    /\ pc = "while"
    /\ unprocessed_account_ids = << >>
    /\ root_account_client # None
    /\ Diverges(root_account_client[1], customer_ids_to_child_accounts)
    /\ outcome' = "recursion_error"
    /\ pc' = "exited"
    /\ exit_code' = 1
    /\ UNCHANGED <<inputs, calls, side, world, pipeline, login_account_id, history, unprocessed_account_ids,
                   customer_ids_to_child_accounts, root_account_client, account_id,
                   fetched, accounts, snapshots>>

\* no level-0 row was seen: ValueError, caught nowhere             (lines 90-91)
NoRoot ==
    /\ pc = "while"
    /\ unprocessed_account_ids = << >>
    /\ root_account_client = None
    /\ outcome' = "no_root"
    /\ pc' = "exited"
    /\ exit_code' = 1
    /\ UNCHANGED <<inputs, calls, side, world, pipeline, login_account_id, history, unprocessed_account_ids,
                   customer_ids_to_child_accounts, root_account_client, account_id,
                   fetched, accounts, snapshots>>

\* collect_data saves accounts.json; the locals of account_structure are gone
SaveAccounts ==
    /\ pc = "save_accounts"
    /\ disk' = save(disk, Path(today, "accounts"), accounts)
    /\ snapshots' = snapshots \cup {"accounts"}
    /\ pc' = Steps[1]
    /\ customer_ids_to_child_accounts' = << >>
    /\ root_account_client' = None
    /\ account_id' = 0
    /\ fetched' = 0
    /\ UNCHANGED <<inputs, calls, side, login_account_id, history, unprocessed_account_ids,
                   accounts, outcome, exit_code, run, today, volume, store,
                   platform_rows, pipeline>>

\* the seeds hash() may be keyed with in this process: drawn when the first key
\* is hashed, kept from then on
SeedChoices == IF hash_seed = -1 THEN 0..MaxSeed ELSE {hash_seed}

\* the counters the platform reported, after a metrics step fetched rows
Reported(rows, records) ==
    LET keys == {[campaign_id |-> records[i].campaign_id, date |-> records[i].date] :
                    i \in 1..Len(records)}
    IN  [k \in DOMAIN rows \cup keys |-> IF k \in keys THEN volume ELSE rows[k]]

\* one extraction step of collect_data succeeds and its snapshot is saved: one
\* query per id of QueriedBy, then save               (main.py:45-97)
ExtractAndSave ==
    /\ pc \in StepNames
    /\ \E seed \in (IF pc \in MetricsSteps THEN SeedChoices ELSE {hash_seed}) :
        LET records == Extracted(pc, QueriedBy(pc, accounts), today, volume, seed)
        IN  /\ hash_seed' = seed
            /\ disk' = save(disk, Path(today, pc), records)
            /\ platform_rows' =
                 IF pc \in MetricsSteps
                 THEN [platform_rows EXCEPT ![pc] = Reported(@, records)]
                 ELSE platform_rows
    /\ step_queries' = QueriedBy(pc, accounts)
    /\ snapshots' = snapshots \cup {pc}
    /\ pc' = AfterStep(pc)
    /\ UNCHANGED <<inputs, calls, side, login_account_id, history, unprocessed_account_ids,
                   customer_ids_to_child_accounts, root_account_client, account_id,
                   fetched, accounts, outcome, exit_code, run, today, volume, store,
                   load_state>>

\* (mutation of ExtractFails: the failure is logged and collect_data goes on with
\* the next step, without a snapshot of the failed one)
ExtractFails_GoesOn ==
    /\ pc \in StepNames
    /\ QueriedBy(pc, accounts) # << >>
    /\ pc' = AfterStep(pc)
    /\ UNCHANGED <<inputs, calls, side, login_account_id, history, unprocessed_account_ids,
                   customer_ids_to_child_accounts, root_account_client, account_id,
                   fetched, accounts, outcome, snapshots, exit_code, world,
                   pipeline>>

\* one of the queries of an extraction step fails: sys.exit(1) as in QueryFails
ExtractFails ==
    /\ pc \in StepNames
    /\ QueriedBy(pc, accounts) # << >>
    /\ pc' = "exited"
    /\ exit_code' = 1
    /\ UNCHANGED <<inputs, calls, side, login_account_id, history, unprocessed_account_ids,
                   customer_ids_to_child_accounts, root_account_client, account_id,
                   fetched, accounts, outcome, snapshots, world, pipeline>>

\* main calls populate_db after collect_data returned: engine, create_all
PopulateDb ==
    /\ pc = "populate_db"
    /\ load_state' = "started"
    /\ pc' = LoaderPc(1)
    /\ UNCHANGED <<inputs, calls, side, login_account_id, history, unprocessed_account_ids,
                   customer_ids_to_child_accounts, root_account_client, account_id,
                   fetched, accounts, outcome, snapshots, exit_code, world,
                   hash_seed, step_queries>>

\* the snapshot a loader reads and the table it writes
LoaderFile == Loaders[LoaderIndex(pc)]
LoaderResult == Loaded(LoaderFile, store[LoaderFile], disk[Path(today, LoaderFile)])

\* one loader of populate_db runs to its end; after the last one main returns
Load ==
    /\ pc \in LoaderNames
    /\ LoaderResult.ok
    /\ store' = [store EXCEPT ![LoaderFile] = LoaderResult.table]
    /\ pc' = AfterLoader(pc)
    /\ load_state' = IF AfterLoader(pc) = "exited" THEN "done" ELSE load_state
    /\ exit_code' = IF AfterLoader(pc) = "exited" THEN 0 ELSE exit_code
    /\ UNCHANGED <<inputs, calls, side, login_account_id, history, unprocessed_account_ids,
                   customer_ids_to_child_accounts, root_account_client, account_id,
                   fetched, accounts, outcome, snapshots, run, today, volume, disk,
                   platform_rows, hash_seed, step_queries>>

\* a statement of a loader raises: the open transaction is rolled back, the
\* TypeError is caught nowhere and the process ends with status 1
LoadFails ==
    /\ pc \in LoaderNames
    /\ ~LoaderResult.ok
    /\ store' = [store EXCEPT ![LoaderFile] = LoaderResult.table]
    /\ pc' = "exited"
    /\ load_state' = "failed"
    /\ exit_code' = 1
    /\ UNCHANGED <<inputs, calls, side, login_account_id, history, unprocessed_account_ids,
                   customer_ids_to_child_accounts, root_account_client, account_id,
                   fetched, accounts, outcome, snapshots, run, today, volume, disk,
                   platform_rows, hash_seed, step_queries>>

\* the scenario after account 202 was moved from manager 101 to the root
ScenarioMoved ==
    [n \in ScenarioIds |->
        IF n = 100 THEN [manager |-> TRUE, children |-> <<101, 102, 202>>]
        ELSE IF n = 101 THEN [manager |-> TRUE, children |-> <<201>>]
        ELSE [manager |-> FALSE, children |-> << >>]]

\* responses that list the root as a child of its own child
CyclicService ==
    [kind |-> "fixed",
     rows |-> (100 :> <<[id |-> 100, level |-> 0, manager |-> TRUE],
                        [id |-> 101, level |-> 1, manager |-> TRUE]>>) @@
              (101 :> <<[id |-> 101, level |-> 0, manager |-> TRUE],
                        [id |-> 100, level |-> 1, manager |-> TRUE]>>)]

\* a response without a level-0 row
RootlessService ==
    [kind |-> "fixed",
     rows |-> (100 :> <<[id |-> 102, level |-> 1, manager |-> FALSE]>>)]

RunServices ==
    {HierarchyService(Scenario), HierarchyService(ScenarioMoved), CyclicService,
     RootlessService}

\* the pipeline is started again, the same day or the day after: a new process
\* with the disk and the store the earlier runs left
NextRun ==
    /\ pc = "exited"
    /\ run < MaxRuns
    /\ run' = run + 1
    /\ today' \in {today, today + 1}
    /\ volume' \in 1..MaxVolume
    /\ pc' = "start"
    /\ login_account_id' = 0
    /\ unprocessed_account_ids' = << >>
    /\ customer_ids_to_child_accounts' = << >>
    /\ root_account_client' = None
    /\ account_id' = 0
    /\ fetched' = 0
    /\ rows_served' = 0
    /\ accounts' = << >>
    /\ outcome' = "running"
    /\ queries' = << >>
    /\ level0_ids_seen' = {}
    /\ snapshots' = {}
    /\ exit_code' = -1
    /\ hash_seed' = -1
    /\ step_queries' = << >>
    /\ load_state' = "idle"
    /\ service' \in RunServices
    /\ UNCHANGED <<login_arg, disk, store, platform_rows, calls, side>>

Next ==
    \/ Start
    \/ StartFails
    \/ Search
    \/ QueryFails
    \/ HandleRow
    \/ EndResponse
    \/ Return
    \/ RecursionFails
    \/ NoRoot
    \/ SaveAccounts
    \/ ExtractAndSave
    \/ ExtractFails
    \/ PopulateDb
    \/ Load
    \/ LoadFails

Spec == Init /\ [][Next]_vars

\* several runs of the pipeline, one after the other: what the capability serves
\* is one of RunServices in each run
InitRuns ==
    /\ service \in RunServices
    /\ login_arg \in {PyStr(<<"1", "0", "0">>), PyStr(<<"a", "b", "c">>)}
    /\ InitLocals
    /\ InitWorld
    /\ SideIdle

NextRuns == Next \/ NextRun

SpecRuns == InitRuns /\ [][NextRuns]_vars

(* ------------------------------------- account_structure calls side by side *)
\* Two calls of account_structure on one client, their steps interleaved.  A call
\* is a thread (its position, its argument, what it returned) and the frame that
\* holds its locals; calls.log lists the searches in the order the capability
\* received them.
CallIds == {1, 2}
CallRoots == {100, 101}

\* responses that list manager 102 under two managers and manager 101 twice
ScenarioShared ==
    [n \in ScenarioIds |->
        IF n = 100 THEN [manager |-> TRUE, children |-> <<101, 101, 102>>]
        ELSE IF n = 101 THEN [manager |-> TRUE, children |-> <<201, 102>>]
        ELSE IF n = 102 THEN [manager |-> TRUE, children |-> << >>]
        ELSE [manager |-> FALSE, children |-> << >>]]

CallServices == RunServices \cup {HierarchyService(ScenarioShared)}

\* the locals of a call before its while loop                     (lines 52-54)
NewFrame(login) ==
    [unprocessed_account_ids |-> <<login>>,
     customer_ids_to_child_accounts |-> << >>,
     root_account_client |-> None,
     account_id |-> 0,
     fetched |-> 0]

\* (mutation of Frame: the work list, the mapping and the root are module-level
\* state, one copy for all calls)
Frame_ModuleLevel(c) == 1

\* the work list, the mapping and the root are locals of the function body: every
\* call has a frame of its own                                    (lines 29-54)
Frame(c) == c

\* the frame after one row of the response was handled            (lines 64-82)
AfterRow(f, row) ==
    IF IsSelfRow(row)
    THEN [f EXCEPT !.root_account_client = CaptureRoot(@, row),
                   !.fetched = @ + 1]
    ELSE LET map == AppendChild(f.customer_ids_to_child_accounts, f.account_id, row)
         IN  [f EXCEPT !.customer_ids_to_child_accounts = map,
                       !.unprocessed_account_ids =
                           IF ShouldEnqueue(map, row) THEN Append(@, row.id) ELSE @,
                       !.fetched = @ + 1]

\* what a call returns or raises once its work list is empty       (lines 84-92)
Outcome(f) ==
    IF f.root_account_client = None
    THEN [outcome |-> "no_root", accounts |-> << >>]
    ELSE IF Diverges(f.root_account_client[1], f.customer_ids_to_child_accounts)
    THEN [outcome |-> "recursion_error", accounts |-> << >>]
    ELSE [outcome |-> "returned",
          accounts |-> parse_account_hierarchy(f.root_account_client[1],
                                               f.customer_ids_to_child_accounts, 0)]

InitCalls ==
    /\ service \in CallServices
    /\ login_arg = PyInt(100)
    /\ InitLocals
    /\ SideIdle
    /\ run = 1
    /\ today = 1
    /\ volume = 1
    /\ disk = << >>
    /\ store = EmptyStore
    /\ platform_rows = [k \in MetricsSteps |-> << >>]
    /\ \E roots \in [CallIds -> CallRoots] :
          calls = [thread |-> [c \in CallIds |->
                                  [pc |-> "start", login |-> roots[c],
                                   result |-> [outcome |-> "running",
                                               accounts |-> << >>]]],
                   frame |-> [c \in CallIds |-> NewFrame(0)],
                   log |-> << >>]

pipeline_vars ==
    <<service, login_arg, login_account_id, pc, unprocessed_account_ids,
      customer_ids_to_child_accounts, root_account_client, account_id, fetched,
      rows_served, accounts, outcome, queries, level0_ids_seen, snapshots,
      exit_code, run, today, volume, hash_seed, step_queries, disk, store,
      load_state, platform_rows>>
main_vars == <<pipeline_vars, side>>
program_vars == <<pipeline_vars, calls>>
not_notification == <<program_vars, geo, batching>>
not_geo == <<program_vars, notification, batching>>
not_batching == <<program_vars, notification, geo>>

\* call c enters the function body                                (lines 29-54)
CallStart(c) ==
    /\ calls.thread[c].pc = "start"
    /\ calls' = [calls EXCEPT !.thread[c].pc = "while",
                              !.frame[Frame(c)] = NewFrame(calls.thread[c].login)]
    /\ UNCHANGED main_vars

\* call c pops an id and searches                                 (lines 56-60)
CallSearch(c) ==
    LET f == calls.frame[Frame(c)]
    IN  /\ calls.thread[c].pc = "while"
        /\ f.unprocessed_account_ids # << >>
        /\ calls' = [calls EXCEPT
                       !.thread[c].pc = "for",
                       !.frame[Frame(c)] =
                           [f EXCEPT !.account_id = Head(f.unprocessed_account_ids),
                                     !.unprocessed_account_ids = Tail(@),
                                     !.fetched = 0],
                       !.log = Append(@, <<c, Head(f.unprocessed_account_ids)>>)]
        /\ UNCHANGED main_vars

\* call c handles the next row of its response                    (lines 64-82)
CallHandleRow(c) ==
    LET f == calls.frame[Frame(c)]
    IN  /\ calls.thread[c].pc = "for"
        /\ \E row \in NextRows(service, f.account_id, f.fetched, 0) :
              calls' = [calls EXCEPT !.frame[Frame(c)] = AfterRow(f, row)]
        /\ UNCHANGED main_vars

\* the response of call c is exhausted
CallEndResponse(c) ==
    LET f == calls.frame[Frame(c)]
    IN  /\ calls.thread[c].pc = "for"
        /\ Exhausted(service, f.account_id, f.fetched)
        /\ calls' = [calls EXCEPT !.thread[c].pc = "while"]
        /\ UNCHANGED main_vars

\* the work list of call c is empty: it returns its list or raises (lines 84-92)
CallReturn(c) ==
    LET f == calls.frame[Frame(c)]
    IN  /\ calls.thread[c].pc = "while"
        /\ f.unprocessed_account_ids = << >>
        /\ calls' = [calls EXCEPT !.thread[c].pc = "done",
                                  !.thread[c].result = Outcome(f)]
        /\ UNCHANGED main_vars

NextCalls ==
    \E c \in CallIds :
        \/ CallStart(c)
        \/ CallSearch(c)
        \/ CallHandleRow(c)
        \/ CallEndResponse(c)
        \/ CallReturn(c)

SpecCalls == InitCalls /\ [][NextCalls]_vars

(* ------------------------------------ notification: send_with_retry, wrapper *)
MaxRetries == 10
MaxTokens == 3
MaxTokenChars == 3

\* sequences over S of length at most k
SeqsUpTo(S, k) == UNION {[1..n -> S] : n \in 0..k}

TokenValues == {<<"a">>, <<"b">>, <<"c">>}
TokenLists == SeqsUpTo(TokenValues, MaxTokens)
EnvStrings == SeqsUpTo({"a", ";"}, MaxTokenChars)

\* str.split(sep): the pieces between the separators, empty pieces included
RECURSIVE split(_, _)
split(s, sep) ==
    IF \A i \in 1..Len(s) : s[i] # sep THEN <<s>>
    ELSE LET i == CHOOSE k \in 1..Len(s) :
                      s[k] = sep /\ \A j \in 1..(k - 1) : s[j] # sep
         IN  <<SubSeq(s, 1, i - 1)>> \o split(SubSeq(s, i + 1, Len(s)), sep)

\* both variables must be set; the token string is split at ";"    (lines 37-47)
get_secrets(env) ==
    IF "CHAT_ID" \notin DOMAIN env THEN [ok |-> FALSE, error |-> "AssertionError"]
    ELSE IF "TOKENS" \notin DOMAIN env THEN [ok |-> FALSE, error |-> "AssertionError"]
    ELSE [ok |-> TRUE, tokens |-> split(env["TOKENS"], ";"), chat_id |-> env["CHAT_ID"]]

\* the exception classes that appear, each with its base class
Bases ==
    [requests_ConnectionError |-> "RequestException", SSLError |-> "requests_ConnectionError",
     ConnectTimeout |-> "requests_ConnectionError", HTTPError |-> "RequestException",
     ReadTimeout |-> "RequestException", RequestException |-> "OSError",
     ConnectionError |-> "OSError", OSError |-> "Exception",
     ZeroDivisionError |-> "Exception", ValueError |-> "Exception",
     AssertionError |-> "Exception", Exception |-> "BaseException",
     KeyboardInterrupt |-> "BaseException"]

RECURSIVE isinstance(_, _)
isinstance(e, classes) ==
    \/ e \in classes
    \/ e \in DOMAIN Bases /\ isinstance(Bases[e], classes)

\* what a call of send_func may raise
SendErrors == {"requests_ConnectionError", "SSLError", "ConnectTimeout", "HTTPError",
               "ReadTimeout", "ValueError", "KeyboardInterrupt"}

\* (mutation of caught: the except clause names Exception and BaseException)
caught_Everything(e) == isinstance(e, {"Exception", "BaseException"})

\* the except clause of the retry loop                              (lines 61-65)
caught(e) == isinstance(e, {"requests_ConnectionError", "SSLError", "HTTPError"})

\* (mutation of token_for: every attempt uses the first token)
token_for_NoRotation(toks, n) == toks[1]

\* tokens[retry % len(tokens)]                                      (line 59)
token_for(toks, n) == toks[(n % Len(toks)) + 1]

\* send_with_retry ends with r; under the wrapper send_message then returns and
\* sys.exit(1) follows, or the exception leaves the except block  (lines 39-43)
Leave(r) ==
    /\ send_result' = r
    /\ IF r \in {"True", "False"}
       THEN /\ n_pc' = IF wrapped.active THEN "exited" ELSE "returned"
            /\ wrapped' = IF wrapped.active
                          THEN [wrapped EXCEPT !.exit_status = 1] ELSE wrapped
       ELSE /\ n_pc' = "raised"
            /\ wrapped' = IF wrapped.active
                          THEN [wrapped EXCEPT !.escaped = r] ELSE wrapped

\* the wrapped function returns: the wrapper returns its result   (lines 35-36)
WrappedReturns ==
    /\ n_pc = "call"
    /\ n_pc' = "returned"
    /\ wrapped' = [wrapped EXCEPT !.returned = "result"]
    /\ UNCHANGED <<not_notification, environ, tokens, retry, sent, raised, send_result>>

\* the wrapped function raises: the wrapper calls send_message, which reads the
\* secrets and enters send_with_retry                   (lines 37-42; 78-82)
WrappedRaises ==
    /\ n_pc = "call"
    /\ LET secrets == get_secrets(environ)
       IN  IF secrets.ok
           THEN /\ tokens' = secrets.tokens
                /\ n_pc' = "while"
                /\ wrapped' = [wrapped EXCEPT !.caught = TRUE, !.notifications = @ + 1]
           ELSE /\ tokens' = tokens
                /\ n_pc' = "raised"
                /\ wrapped' = [wrapped EXCEPT !.caught = TRUE,
                                              !.escaped = secrets.error]
    /\ UNCHANGED <<not_notification, environ, retry, sent, raised, send_result>>

\* one pass of the loop body in which send_func returns          (lines 57-60)
SendSucceeds ==
    /\ n_pc = "while"
    /\ retry < MaxRetries
    /\ tokens # << >>
    /\ sent' = Append(sent, token_for(tokens, retry))
    /\ raised' = "None"
    /\ Leave("True")
    /\ UNCHANGED <<not_notification, environ, tokens, retry>>

\* one pass of the loop body in which send_func raises           (lines 57-70)
SendFails ==
    /\ n_pc = "while"
    /\ retry < MaxRetries
    /\ tokens # << >>
    /\ sent' = Append(sent, token_for(tokens, retry))
    /\ \E e \in SendErrors :
          /\ raised' = e
          /\ IF caught(e)
             THEN /\ retry' = retry + 1
                  /\ UNCHANGED <<n_pc, send_result, wrapped>>
             ELSE /\ retry' = retry
                  /\ Leave(e)
    /\ UNCHANGED <<not_notification, environ, tokens>>

\* retry % len(tokens) with no token: the division fails           (line 59)
NoToken ==
    /\ n_pc = "while"
    /\ retry < MaxRetries
    /\ tokens = << >>
    /\ Leave("ZeroDivisionError")
    /\ UNCHANGED <<not_notification, environ, tokens, retry, sent, raised>>

\* (mutation of AfterLoop: the function returns False)
AfterLoop_ReturnsFalse ==
    /\ n_pc = "while"
    /\ ~(retry < MaxRetries)
    /\ Leave("False")
    /\ UNCHANGED <<not_notification, environ, tokens, retry, sent, raised>>

\* the loop is over                                              (lines 72-75)
AfterLoop ==
    /\ n_pc = "while"
    /\ ~(retry < MaxRetries)
    /\ IF retry = MaxRetries THEN Leave("ConnectionError") ELSE Leave("False")
    /\ UNCHANGED <<not_notification, environ, tokens, retry, sent, raised>>

\* the pipeline does not run
MainIdle ==
    /\ service = HierarchyService(Scenario)
    /\ login_arg = PyInt(100)
    /\ InitLocals
    /\ InitWorld

\* either send_with_retry is called with some token list, or a function is called
\* under handle_global_exception in some environment
InitNotify ==
    /\ MainIdle
    /\ GeoIdle
    /\ BatchingIdle
    /\ retry = 0
    /\ sent = << >>
    /\ raised = "None"
    /\ send_result = "None"
    /\ \/ /\ n_pc = "while"
          /\ tokens \in TokenLists
          /\ environ = << >>
          /\ wrapped = NoWrapped
       \/ /\ n_pc = "call"
          /\ tokens = << >>
          /\ environ \in {<< >>, [CHAT_ID |-> <<"1">>]} \cup
                         {[TOKENS |-> t] : t \in EnvStrings} \cup
                         {[CHAT_ID |-> <<"1">>, TOKENS |-> t] : t \in EnvStrings}
          /\ wrapped = [NoWrapped EXCEPT !.active = TRUE]

NextNotify ==
    \/ WrappedReturns
    \/ WrappedRaises
    \/ SendSucceeds
    \/ SendFails
    \/ NoToken
    \/ AfterLoop

SpecNotify == InitNotify /\ [][NextNotify]_vars

(* ------------------------------------------------------- insert_geo_targets *)
MaxGeoId == 3
MaxCsvRows == 3
MaxGeoCalls == 2
batch_size == 2

GeoIds == 1..MaxGeoId

\* a DataFrame parsed from the CSV: its rows in file order.  pandas keeps rows
\* that repeat a "Criteria ID".
GeoRow(i) == [id |-> i, name |-> "csv"]
DataFrames == {[k \in DOMAIN ids |-> GeoRow(ids[k])] : ids \in SeqsUpTo(GeoIds, MaxCsvRows)}

\* the GeoTargets table an earlier process left: id -> row
StoredGeoTargets ==
    {[i \in S |-> [id |-> i, name |-> "stored"]] : S \in SUBSET GeoIds}

\* (mutation of new_records: the frame is not filtered)
new_records_Unfiltered(frame, existing) == frame

\* df[~df["id"].isin(existing_ids)], then to_dict(orient="records")  (lines 139, 149)
new_records(frame, existing) == SelectSeq(frame, LAMBDA r : r.id \notin existing)

\* connection.execute(insert(GeoTarget), batch) inside engine.begin(): every row
\* of the batch is inserted, or the primary key is violated and none is
insert_many(table, batch) ==
    IF /\ \A k \in 1..Len(batch) : batch[k].id \notin DOMAIN table
       /\ \A j, k \in 1..Len(batch) : batch[j].id = batch[k].id => j = k
    THEN [ok |-> TRUE,
          table |-> [i \in DOMAIN table \cup {batch[k].id : k \in 1..Len(batch)} |->
                        IF i \in DOMAIN table THEN table[i]
                        ELSE batch[CHOOSE k \in 1..Len(batch) : batch[k].id = i]]]
    ELSE [ok |-> FALSE, table |-> table]

\* create the table if missing, read the stored ids, drop the rows whose id is
\* stored; return when nothing is left, else cut the rest in batches (lines 122-150)
GeoSelect ==
    /\ g_pc = "select"
    /\ LET records == new_records(df, DOMAIN geo_targets)
       IN  IF records = << >>
           THEN /\ g_pc' = "returned"
                /\ geo_batches' = << >>
           ELSE /\ g_pc' = "insert"
                /\ geo_batches' = batched(records, batch_size)
    /\ UNCHANGED <<not_geo, df, geo_targets, geo_at_call,
                   geo_writes, geo_calls>>

\* one pass of the loop over the batches: the batch is committed, and after the
\* last batch the function returns                              (lines 151-156)
GeoInsertBatch ==
    /\ g_pc = "insert"
    /\ geo_batches # << >>
    /\ insert_many(geo_targets, Head(geo_batches)).ok
    /\ geo_targets' = insert_many(geo_targets, Head(geo_batches)).table
    /\ geo_writes' = geo_writes + 1
    /\ geo_batches' = Tail(geo_batches)
    /\ g_pc' = IF Tail(geo_batches) = << >> THEN "returned" ELSE "insert"
    /\ UNCHANGED <<not_geo, df, geo_at_call, geo_calls>>

\* one pass of the loop in which the insert raises: the batch is rolled back and
\* the IntegrityError leaves the function                       (lines 151-153)
GeoInsertFails ==
    /\ g_pc = "insert"
    /\ geo_batches # << >>
    /\ ~insert_many(geo_targets, Head(geo_batches)).ok
    /\ g_pc' = "raised"
    /\ UNCHANGED <<not_geo, df, geo_targets, geo_at_call,
                   geo_batches, geo_writes, geo_calls>>

\* a later process parses the CSV of its day and calls insert_geo_targets again
GeoCall ==
    /\ g_pc \in {"returned", "raised"}
    /\ geo_calls < MaxGeoCalls
    /\ geo_calls' = geo_calls + 1
    /\ df' \in DataFrames
    /\ geo_at_call' = geo_targets
    /\ geo_batches' = << >>
    /\ geo_writes' = 0
    /\ g_pc' = "select"
    /\ UNCHANGED <<not_geo, geo_targets>>

InitGeo ==
    /\ MainIdle
    /\ NotificationIdle
    /\ BatchingIdle
    /\ g_pc = "select"
    /\ df \in DataFrames
    /\ geo_targets \in StoredGeoTargets
    /\ geo_at_call = geo_targets
    /\ geo_batches = << >>
    /\ geo_writes = 0
    /\ geo_calls = 1

NextGeo ==
    \/ GeoSelect
    \/ GeoInsertBatch
    \/ GeoInsertFails
    \/ GeoCall

SpecGeo == InitGeo /\ [][NextGeo]_vars

(* ------------------------------------------------------------ utils.batched *)
MaxIterable == 4
MaxBatch == 3

\* (mutation of islice: everything that is left is taken)
islice_TakesAll(rest, k) == rest

\* tuple(islice(it, n)): the next n items, or those that are left      (line 11)
islice(rest, k) == SubSeq(rest, 1, IF k < Len(rest) THEN k ELSE Len(rest))

\* the generator is resumed for the first time with n < 1: the body starts and
\* raises                                                         (lines 8-9)
BatchedRaises ==
    /\ b_pc = "created"
    /\ batch_n < 1
    /\ b_pc' = "raised"
    /\ b_error' = "ValueError"
    /\ UNCHANGED <<not_batching, iterable, batch_n, it, yielded>>

\* the generator is resumed and yields the next batch            (lines 8-12)
BatchedYields ==
    /\ \/ b_pc = "created" /\ ~(batch_n < 1)
       \/ b_pc = "suspended"
    /\ islice(it, batch_n) # << >>
    /\ yielded' = Append(yielded, islice(it, batch_n))
    /\ it' = SubSeq(it, Len(islice(it, batch_n)) + 1, Len(it))
    /\ b_pc' = "suspended"
    /\ UNCHANGED <<not_batching, iterable, batch_n, b_error>>

\* the generator is resumed and nothing is left: the loop ends   (lines 8-11)
BatchedStops ==
    /\ \/ b_pc = "created" /\ ~(batch_n < 1)
       \/ b_pc = "suspended"
    /\ islice(it, batch_n) = << >>
    /\ b_pc' = "exhausted"
    /\ UNCHANGED <<not_batching, iterable, batch_n, it, yielded, b_error>>

\* batched(iterable, n) was called with some sequence and some n: the generator
\* exists and has not run yet
InitBatched ==
    /\ MainIdle
    /\ NotificationIdle
    /\ GeoIdle
    /\ b_pc = "created"
    /\ iterable \in SeqsUpTo({"x", "y"}, MaxIterable)
    /\ batch_n \in -1..MaxBatch
    /\ it = iterable
    /\ yielded = << >>
    /\ b_error = "None"

NextBatched ==
    \/ BatchedRaises
    \/ BatchedYields
    \/ BatchedStops

SpecBatched == InitBatched /\ [][NextBatched]_vars


(* ------------------------------------------------------------------ claims *)
\* account_structure has just returned its list; its locals are still in scope
AtReturn == pc = "save_accounts"

\* every query succeeded and account_structure ended, by return or by raising
Ended == outcome \in {"returned", "no_root", "recursion_error"}

AccountIds == [i \in 1..Len(accounts) |-> accounts[i].id]

Occurrences(seq, x) == Cardinality({i \in 1..Len(seq) : seq[i] = x})

\* C1: whenever account_structure returns a list, its first element has level 0
\* and the id of the requested root, whichever response carried the level-0 row.
C1_FirstIsRequestedRoot ==
    outcome = "returned" =>
        /\ Len(accounts) >= 1
        /\ accounts[1].level = 0
        /\ accounts[1].id = login_account_id

\* C2: when no response carried a level-0 row with the id of the requested root,
\* account_structure ends with the no-root error and returns no list.
C2_NoRootRowMeansError ==
    (Ended /\ login_account_id \notin level0_ids_seen) =>
        (outcome = "no_root" /\ accounts = << >>)

\* child links of the hierarchy a well-formed capability serves
ServiceEdges ==
    UNION {{<<n, service.rows[n][i].id>> :
               i \in {k \in 1..Len(service.rows[n]) : service.rows[n][k].level = 1}} :
           n \in DOMAIN service.rows}

ReachableAccounts == Closure(ServiceEdges, {login_account_id})

\* C3: served by a well-formed hierarchy, the ids of the returned list are exactly
\* the accounts reachable from the root through child links; for the scenario
\* the ids are 100, 101, 201, 202, 102 in this order.
C3_ExactlyTheReachableAccounts ==
    (outcome = "returned" /\ service.kind = "hierarchy") =>
        /\ SeqRange(AccountIds) = ReachableAccounts
        /\ login_account_id = 100 => AccountIds = <<100, 101, 201, 202, 102>>

C3_Witness ==
    /\ AtReturn
    /\ AccountIds = <<100, 101, 201, 202, 102>>
    /\ queries = <<100, 101>>

\* depth parameter of the call that emitted each element of the returned list
Depths == CallDepths(root_account_client[1], customer_ids_to_child_accounts, 0)

\* last position of the block of elements emitted by the call at position i
BlockEnd(D, i) ==
    CHOOSE e \in i..Len(D) :
        /\ \A q \in (i + 1)..e : D[q] > D[i]
        /\ e = Len(D) \/ D[e + 1] <= D[i]

\* positions of the elements emitted by the calls made directly at position i
ChildPositions(D, i) == {q \in (i + 1)..BlockEnd(D, i) : D[q] = D[i] + 1}

\* position of the element whose call made the call at position j
ParentPos(D, j) ==
    CHOOSE i \in 1..(j - 1) :
        D[i] = D[j] - 1 /\ \A q \in (i + 1)..(j - 1) : D[q] >= D[j]

NthSmallest(S, j) == CHOOSE x \in S : Cardinality({y \in S : y < x}) = j - 1

ChildRows(id) ==
    IF id \in DOMAIN customer_ids_to_child_accounts
    THEN customer_ids_to_child_accounts[id]
    ELSE << >>

\* C4: in the returned list every account is followed by the blocks of its
\* children, one block per child row of the mapping, in the order of the rows;
\* a block starts with the child and holds only accounts below it, and it ends
\* before the block of the next child starts (depth-first pre-order).
C4_PreOrderBlocks ==
    AtReturn =>
        /\ Len(Depths) = Len(accounts)
        /\ \A i \in 1..Len(accounts) :
              LET kids == ChildRows(accounts[i].id)
                  at == ChildPositions(Depths, i)
              IN  /\ Cardinality(at) = Len(kids)
                  /\ \A j \in 1..Len(kids) :
                        LET p == NthSmallest(at, j)
                        IN  /\ p > i
                            /\ accounts[p] = GAccount(kids[j])
                            /\ j < Len(kids) =>
                                  BlockEnd(Depths, p) + 1 = NthSmallest(at, j + 1)
                            /\ \A q \in p..BlockEnd(Depths, p) :
                                  accounts[q].id \in
                                      Closure(MapEdges(customer_ids_to_child_accounts),
                                              {kids[j].id})

\* the root has two children, the first of them has children of its own, and the
\* manager below the root was queried after the root (breadth-first expansion)
C4_Witness ==
    /\ AtReturn
    /\ Len(ChildRows(login_account_id)) >= 2
    /\ ChildRows(ChildRows(login_account_id)[1].id) # << >>
    /\ Len(queries) >= 2
    /\ Len(accounts) >= 4

\* C5: served by a well-formed hierarchy, every element of the returned list but
\* the first has the level of the element that emitted it as a child, plus 1;
\* for the scenario the levels are 0, 1, 2, 2, 1.
C5_LevelIsParentLevelPlusOne ==
    (AtReturn /\ service.kind = "hierarchy") =>
        /\ \A j \in 2..Len(accounts) :
              accounts[j].level = accounts[ParentPos(Depths, j)].level + 1
        /\ login_account_id = 100 =>
              [i \in 1..Len(accounts) |-> accounts[i].level] = <<0, 1, 2, 2, 1>>

\* C6: a returned list holds no two elements with the same id.
C6_NoDuplicateIds ==
    outcome = "returned" =>
        \A i, j \in 1..Len(accounts) : i # j => accounts[i].id # accounts[j].id

\* the single response for parent p listed manager child c twice
ListedTwice(p, c) ==
    /\ Occurrences(queries, p) = 1
    /\ \E i, j \in 1..Len(ChildRows(p)) :
          /\ i < j
          /\ ChildRows(p)[i].id = c /\ ChildRows(p)[i].manager
          /\ ChildRows(p)[j].id = c /\ ChildRows(p)[j].manager

\* C7: a manager child listed twice in one response is queried once and occurs
\* once in the returned list, and so does each of its own children.
C7_RepeatedChildEmittedOnce ==
    AtReturn =>
        \A p \in DOMAIN customer_ids_to_child_accounts : \A c \in Ids \cup ScenarioIds :
            ListedTwice(p, c) =>
                /\ Occurrences(queries, c) = 1
                /\ Occurrences(AccountIds, c) = 1
                /\ \A k \in 1..Len(ChildRows(c)) :
                      Occurrences(AccountIds, ChildRows(c)[k].id) = 1

\* C8: after a failed query nothing more happens: no query is issued again, no
\* list is returned, no snapshot is written, no later step starts, and the
\* process has ended with exit status 1.
C8_QueryFailureEndsTheRun ==
    /\ [](outcome = "query_failed" =>
            /\ pc = "exited"
            /\ exit_code = 1
            /\ accounts = << >>
            /\ snapshots = {})
    /\ [][outcome = "query_failed" =>
            /\ queries' = queries
            /\ accounts' = accounts
            /\ snapshots' = snapshots
            /\ pc' = pc]_vars

\* a query failed after part of the hierarchy was discovered, ids still queued
C8_Witness ==
    /\ outcome = "query_failed"
    /\ unprocessed_account_ids # << >>
    /\ customer_ids_to_child_accounts # << >>
    /\ root_account_client # None
    /\ Len(queries) >= 2

\* C9: when every query succeeds, account_structure ends by returning a list or
\* by raising the no-root error, cyclic data included.
C9_EndsWithListOrNoRootError ==
    (outcome # "running" /\ outcome # "query_failed") =>
        outcome \in {"returned", "no_root"}

\* the expansion loop is over and the mapping is complete
TraversalEnded ==
    \/ pc = "while" /\ unprocessed_account_ids = << >>
    \/ AtReturn

\* the entries of child lists that hold account id
ChildEntries(id) ==
    {e \in UNION {{<<p, i>> : i \in 1..Len(customer_ids_to_child_accounts[p])} :
                  p \in DOMAIN customer_ids_to_child_accounts} :
        customer_ids_to_child_accounts[e[1]][e[2]].id = id}

\* C10: when the traversal ends, every discovered account but the root is in
\* exactly one child list, exactly once, and the root is in none.
C10_MappingIsForest ==
    TraversalEnded =>
        /\ ChildEntries(login_account_id) = {}
        /\ \A id \in (Ids \cup Nodes \cup ScenarioIds) \ {login_account_id} :
              Cardinality(ChildEntries(id)) <= 1

C12_ChildlessManagerEmittedOnce ==
    (AtReturn /\ service.kind = "hierarchy") =>
        /\ \A m \in SeqRange(queries) :
              Len(service.rows[m]) = 1 =>
                  /\ m \notin DOMAIN customer_ids_to_child_accounts
                  /\ Occurrences(AccountIds, m) = 1
        /\ Len(service.rows[login_account_id]) = 1 =>
              AccountIds = <<login_account_id>>

\* C20: no account id is passed to search twice during one call.
C20_EveryIdQueriedAtMostOnce ==
    \A i, j \in 1..Len(queries) : i # j => queries[i] # queries[j]

\* "a non-negative integer or the string form of one"
ValidRootId(arg) ==
    IF arg.type = "int" THEN arg.val >= 0
    ELSE arg.val # << >> /\ \A i \in 1..Len(arg.val) : IsDigit(arg.val[i])

\* C13: a call whose root id is neither a non-negative integer nor the string
\* form of one issues no query and ends with a validation error.
C13_InvalidRootIdFailsBeforeAnyQuery ==
    ~ValidRootId(login_arg) =>
        /\ queries = << >>
        /\ pc # "start" => outcome = "value_error"

\* the extraction step that has just returned ("none" elsewhere)
CompletedStep ==
    IF pc = "populate_db" THEN Steps[Len(Steps)]
    ELSE IF pc \in StepNames /\ StepIndex(pc) > 1 THEN Steps[StepIndex(pc) - 1]
    ELSE "none"

\* C15 as stated: every extraction step, the metrics steps included, queries the
\* ids of the resolver's output one by one, managers and non-managers alike.
C15_EveryStepQueriesEveryAccount ==
    CompletedStep # "none" => step_queries = AccountIds

\* C15 as the code has it: the campaign, ad group and ad steps issue one query per
\* element of the resolver's output, in its order; each metrics step issues one
\* query per element that is no manager, in that order; no other query is issued.
C15_MetricsStepsSkipManagers ==
    CompletedStep # "none" =>
        LET nonmanagers == SelectSeq(accounts, LAMBDA a : ~a.manager)
        IN  IF CompletedStep \in MetricsSteps
            THEN /\ Len(step_queries) = Len(nonmanagers)
                 /\ \A i \in 1..Len(nonmanagers) : step_queries[i] = nonmanagers[i].id
            ELSE /\ Len(step_queries) = Len(accounts)
                 /\ \A i \in 1..Len(accounts) : step_queries[i] = accounts[i].id

\* both kinds of step have run over an output with a manager and two other accounts
C15_Witness ==
    /\ CompletedStep = "general_metrics"
    /\ Len(step_queries) >= 2
    /\ Len(step_queries) < Len(accounts)
    /\ \E i \in 1..Len(accounts) : accounts[i].manager

\* the snapshot files of one run, in the order collect_data writes them
SnapshotOrder == <<"accounts">> \o Steps
WrittenFirst(k) == {SnapshotOrder[i] : i \in 1..k}

\* C16: the snapshots of a run are written in the order accounts, campaigns, ad
\* groups, ads, general / gender / age / geo metrics, the first one only after the
\* resolution returned; the database load starts only when all of them are
\* written, so a run with a failed extraction step never starts it.
C16_LoadOnlyAfterAllSnapshots ==
    /\ [](/\ \E k \in 0..Len(SnapshotOrder) : snapshots = WrittenFirst(k)
          /\ snapshots # {} => outcome = "returned"
          /\ load_state # "idle" => snapshots = WrittenFirst(Len(SnapshotOrder))
          /\ pc \in LoaderNames => load_state = "started")
    /\ [][/\ snapshots' # snapshots =>
                \E k \in 1..Len(SnapshotOrder) :
                    /\ snapshots = WrittenFirst(k - 1)
                    /\ snapshots' = WrittenFirst(k)
          /\ (pc \in StepNames /\ pc' = "exited") =>
                /\ load_state' = "idle"
                /\ snapshots' = snapshots]_vars

\* a run whose load has started
C16_Witness ==
    /\ pc \in LoaderNames
    /\ load_state = "started"
    /\ Len(accounts) >= 2

\* C17 as stated: whatever is on disk stays as it is, in every step of every run.
C17_SnapshotsNeverModified ==
    [][\A path \in DOMAIN disk : path \in DOMAIN disk' /\ disk'[path] = disk[path]]_vars

\* C17 as the code has it: a snapshot written in a run is not modified by a later
\* step of that run; save overwrites, so after a run wrote a snapshot the file
\* holds what that run extracted, whatever an earlier run had written.
C17_WrittenOncePerRun ==
    /\ [][run' = run =>
            \A name \in snapshots :
                /\ Path(today, name) \in DOMAIN disk'
                /\ disk'[Path(today, name)] = disk[Path(today, name)]]_vars
    /\ []("accounts" \in snapshots => disk[Path(today, "accounts")] = accounts)

\* a later run, the day after in the same month, has replaced the general metrics
\* an earlier run wrote
C17_Witness ==
    /\ run > 1
    /\ "general_metrics" \in snapshots
    /\ \E key \in DOMAIN platform_rows["general_metrics"] :
          key.date < today /\ year_month(key.date) = year_month(today)
    /\ \A i \in 1..Len(disk[Path(today, "general_metrics")]) :
          disk[Path(today, "general_metrics")][i].date = today
    /\ disk[Path(today, "general_metrics")] # << >>

\* what an upsert keyed by id makes of a table: the records in order, a later one
\* replacing an earlier one of the same id
RECURSIVE UpsertedById(_, _)
UpsertedById(table, records) ==
    IF records = << >> THEN table
    ELSE UpsertedById(
             [k \in DOMAIN table \cup {Head(records).id} |->
                 IF k = Head(records).id THEN Head(records) ELSE table[k]],
             Tail(records))

\* C18: every loader completes, and leaves in its table the rows it found there
\* overridden, id by id, by the records of its snapshot (so a second load of the
\* same snapshot completes too and changes nothing).
C18_LoadersAreUpserts ==
    [][(pc \in LoaderNames) =>
          (/\ pc' = AfterLoader(pc)
           /\ store'[LoaderFile] =
                 UpsertedById(store[LoaderFile], disk[Path(today, LoaderFile)]))]_vars

\* the sum of the impressions of the rows of a table for a campaign and a day
RECURSIVE SumImpressions(_, _)
SumImpressions(table, ids) ==
    IF ids = {} THEN 0
    ELSE LET k == CHOOSE x \in ids : TRUE
         IN  table[k].impressions + SumImpressions(table, ids \ {k})
StoredTotal(kind, key) ==
    SumImpressions(store[kind],
        {k \in DOMAIN store[kind] :
            store[kind][k].campaign_id = key.campaign_id /\ store[kind][k].date = key.date})

\* C19: when a run whose extraction succeeded has ended, each metrics table holds
\* for every campaign and day the total the platform reported.
C19_StoredTotalsMatchPlatform ==
    (pc = "exited" /\ load_state # "idle") =>
        \A kind \in MetricsSteps :
            \A key \in DOMAIN platform_rows[kind] :
                StoredTotal(kind, key) = platform_rows[kind][key]

\* what one call makes of a capability with fixed responses when it runs alone:
\* the responses of the ids of the work list, one after the other, row by row
RECURSIVE AloneRows(_, _, _)
AloneRows(f, rows, i) ==
    IF i > Len(rows) THEN f ELSE AloneRows(AfterRow(f, rows[i]), rows, i + 1)
RECURSIVE AloneWhile(_, _)
AloneWhile(svc, f) ==
    IF f.unprocessed_account_ids = << >> THEN f
    ELSE AloneWhile(svc,
             AloneRows([f EXCEPT !.account_id = Head(f.unprocessed_account_ids),
                                 !.unprocessed_account_ids = Tail(@),
                                 !.fetched = 0],
                       svc.rows[Head(f.unprocessed_account_ids)], 1))
Alone(svc, login) == Outcome(AloneWhile(svc, NewFrame(login)))

\* C14: whatever the interleaving of two calls on one client, a call that has
\* ended returned or raised what it does when it runs alone.
C14_CallsDoNotInterfere ==
    \A c \in CallIds :
        calls.thread[c].pc = "done" =>
            calls.thread[c].result = Alone(service, calls.thread[c].login)

\* both calls have returned a list, and the capability received a search of call 2
\* between two searches of call 1
C14_Witness ==
    /\ \A c \in CallIds :
          /\ calls.thread[c].pc = "done"
          /\ calls.thread[c].result.outcome = "returned"
          /\ Len(calls.thread[c].result.accounts) >= 3
    /\ \E i, j, k \in 1..Len(calls.log) :
          /\ i < j /\ j < k
          /\ calls.log[i][1] = 1 /\ calls.log[j][1] = 2 /\ calls.log[k][1] = 1

\* every id put on the work list so far, in the order it was put there
EnqueuedOrder == queries \o unprocessed_account_ids

\* the number of child links on a shortest path from the root to account n
RECURSIVE DistanceFrom(_, _, _, _)
DistanceFrom(frontier, seen, n, d) ==
    IF n \in frontier THEN d
    ELSE DistanceFrom(
             {e[2] : e \in {x \in ServiceEdges : x[1] \in frontier}} \ seen,
             seen \cup frontier, n, d + 1)
Distance(n) == DistanceFrom({login_account_id}, {}, n, 0)
ReachableManagers ==
    {n \in ReachableAccounts : n \in DOMAIN service.rows /\ service.rows[n][1].manager}

\* C21: one search at a time, each for the head of the work list, so the searches
\* are issued in the order the ids were enqueued, the root first; served by a
\* well-formed hierarchy, a search that has just been issued for an account at
\* some distance from the root is preceded by a search for every manager nearer to
\* the root.
C21_QueriesInEnqueueOrder ==
    /\ [](/\ queries # << >> => queries[1] = login_account_id
          /\ (service.kind = "hierarchy" /\ pc = "for" /\ fetched = 0) =>
                \A m \in ReachableManagers :
                    Distance(m) < Distance(queries[Len(queries)]) =>
                        \E i \in 1..(Len(queries) - 1) : queries[i] = m)
    /\ [][/\ \/ EnqueuedOrder' = EnqueuedOrder
             \/ /\ Len(EnqueuedOrder') = Len(EnqueuedOrder) + 1
                /\ SubSeq(EnqueuedOrder', 1, Len(EnqueuedOrder)) = EnqueuedOrder
          /\ queries' # queries =>
                /\ pc = "while" /\ pc' = "for"
                /\ unprocessed_account_ids # << >>
                /\ queries' = Append(queries, Head(unprocessed_account_ids))
                /\ unprocessed_account_ids' = Tail(unprocessed_account_ids)]_vars

\* a finished traversal that searched two managers at distance 1, in the order of
\* their rows, and then one at distance 2
C21_Witness ==
    /\ AtReturn
    /\ service.kind = "hierarchy"
    /\ Len(queries) = 4
    /\ Distance(queries[2]) = 1 /\ Distance(queries[3]) = 1
    /\ Distance(queries[4]) = 2
    /\ service.rows[login_account_id][2].id = queries[2]
    /\ service.rows[login_account_id][3].id = queries[3]

\* the row a capability with fixed responses yields next in the response that is
\* being iterated
RowAtHand == service.rows[account_id][fetched + 1]
HandlesFixedRow ==
    /\ pc = "for"
    /\ fetched' = fetched + 1
    /\ service.kind # "any"

\* C22: no child list ever holds a level-0 row; handling a level-0 row leaves the
\* mapping and the work list as they are and captures the root only when none is
\* captured yet; a captured root record is never replaced while the call runs.
C22_Level0RowsOnlyCaptureTheRoot ==
    /\ [](\A k \in DOMAIN customer_ids_to_child_accounts :
            \A i \in 1..Len(customer_ids_to_child_accounts[k]) :
                customer_ids_to_child_accounts[k][i].level # 0)
    /\ [][/\ (HandlesFixedRow /\ RowAtHand.level = 0) =>
                /\ customer_ids_to_child_accounts' = customer_ids_to_child_accounts
                /\ unprocessed_account_ids' = unprocessed_account_ids
                /\ root_account_client' =
                      IF root_account_client = None THEN <<RowAtHand>>
                      ELSE root_account_client
          /\ (root_account_client # None /\ pc \in {"while", "for"} /\ pc' # "start") =>
                root_account_client' = root_account_client]_vars

\* the level-0 row of a child manager was handled after the root was captured
C22_Witness ==
    /\ pc = "for"
    /\ service.kind = "hierarchy"
    /\ fetched = 1
    /\ account_id # login_account_id
    /\ root_account_client # None
    /\ root_account_client[1].id = login_account_id
    /\ customer_ids_to_child_accounts # << >>

\* the errors of a sender that the claims call connection, SSL and HTTP errors
RetriableErrors ==
    {e \in SendErrors : isinstance(e, {"requests_ConnectionError", "SSLError", "HTTPError"})}

\* C23: send_func is called at most 10 times; its k-th call (counted from 0) is
\* given tokens[k mod len(tokens)]; calls are made one at a time and none after
\* send_with_retry ended, which it does with the first call that succeeds.
C23_AtMostTenCallsRotatingTokens ==
    /\ [](/\ Len(sent) <= 10
          /\ \A k \in 0..(Len(sent) - 1) : sent[k + 1] = tokens[(k % Len(tokens)) + 1])
    /\ [][(sent' # sent) =>
            /\ send_result = "None"
            /\ Len(sent') = Len(sent) + 1
            /\ SubSeq(sent', 1, Len(sent)) = sent
            /\ (raised' = "None") => send_result' = "True"]_vars

\* the fifth call succeeded, with the second of three different tokens
C23_Witness ==
    /\ send_result = "True"
    /\ Len(tokens) = 3
    /\ Cardinality(SeqRange(tokens)) = 3
    /\ Len(sent) = 5
    /\ sent[4] = tokens[1]
    /\ sent[5] = tokens[2]

\* C24: with some token and a sender that fails with connection, SSL or HTTP
\* errors only, send_with_retry ends either returning True, right after the one
\* call that succeeded, or raising ConnectionError after exactly 10 calls that
\* all failed; it never returns False.
C24_TrueOrConnectionErrorAfterTenFailures ==
    /\ send_result # "False"
    /\ (tokens # << >> /\ send_result # "None" /\ raised \in RetriableErrors \cup {"None"}) =>
          \/ /\ send_result = "True"
             /\ raised = "None"
             /\ Len(sent) = retry + 1
          \/ /\ send_result = "ConnectionError"
             /\ raised # "None"
             /\ retry = 10
             /\ Len(sent) = 10

\* ten calls failed and ConnectionError was raised
C24_Witness ==
    /\ send_result = "ConnectionError"
    /\ Len(sent) = 10
    /\ raised = "HTTPError"
    /\ Len(tokens) = 2

\* C25: a call of send_func that raises a connection, SSL or HTTP error is
\* followed by another pass of the loop; one that raises anything else ends
\* send_with_retry with that very error, and nothing is sent afterwards; without
\* a token send_func is never called and the division error leaves the function.
C25_OnlyConnectionSslHttpErrorsRetried ==
    /\ [](/\ tokens = << >> => sent = << >>
          /\ send_result = "ZeroDivisionError" => (tokens = << >> /\ retry = 0))
    /\ [][/\ (sent' # sent /\ raised' # "None") =>
                IF raised' \in RetriableErrors
                THEN retry' = retry + 1 /\ send_result' = "None" /\ n_pc' = "while"
                ELSE retry' = retry /\ send_result' = raised' /\ n_pc' = "raised"
          /\ (n_pc = "while" /\ tokens = << >> /\ n_pc' # n_pc) =>
                send_result' = "ZeroDivisionError" /\ n_pc' = "raised"
          /\ (send_result # "None") =>
                (sent' = sent /\ send_result' = send_result /\ retry' = retry)]_vars

\* the third call raised an error that is not retried
C25_Witness ==
    /\ send_result = "ReadTimeout"
    /\ n_pc = "raised"
    /\ retry = 2
    /\ Len(sent) = 3

\* C26: with the secrets set and a sender that fails with retried errors only, a
\* wrapped function that raised leaves the wrapper by exit status 1 after one
\* notification and no exception escapes; one that returned gives its result and
\* nothing is sent.
C26_WrapperExitsWithOneAndNothingEscapes ==
    (/\ wrapped.active
     /\ n_pc \in {"returned", "raised", "exited"}
     /\ DOMAIN environ = {"CHAT_ID", "TOKENS"}
     /\ raised \in RetriableErrors \cup {"None"}) =>
        IF wrapped.caught
        THEN /\ wrapped.exit_status = 1
             /\ wrapped.escaped = "None"
             /\ wrapped.notifications = 1
        ELSE /\ wrapped.returned = "result"
             /\ wrapped.notifications = 0
             /\ sent = << >>

\* the records the running loader reads, and the k-th group of BATCH_SIZE of them
LoaderRecords == disk[Path(today, LoaderFile)]
BatchCount(records) == (Len(records) + BATCH_SIZE - 1) \div BATCH_SIZE
BatchOf(records, k) ==
    SubSeq(records, (k - 1) * BATCH_SIZE + 1,
           IF k * BATCH_SIZE < Len(records) THEN k * BATCH_SIZE ELSE Len(records))

\* C27: a loader writes its own table only.  A metrics loader that fails leaves
\* in its table exactly what the writes of the first k-1 groups of BATCH_SIZE
\* records give, for the group k one of whose writes fails: nothing of group k
\* and nothing of a later group.  Another loader that fails leaves its table as it
\* was.  A loader that does not fail has written every record.
C27_MetricsCommitPerBatchOthersPerSnapshot ==
    [][(pc \in LoaderNames) =>
        LET t == LoaderFile
            records == LoaderRecords
        IN  /\ \A u \in DOMAIN store \ {t} : store'[u] = store[u]
            /\ IF load_state' = "failed"
               THEN IF t \in MetricsSteps
                    THEN \E k \in 1..BatchCount(records) :
                            LET earlier == SubSeq(records, 1, (k - 1) * BATCH_SIZE)
                            IN  /\ Statements(store[t], earlier).ok
                                /\ store'[t] = Statements(store[t], earlier).table
                                /\ ~Statements(store'[t], BatchOf(records, k)).ok
                    ELSE /\ store'[t] = store[t]
                         /\ ~Statements(store[t], records).ok
               ELSE /\ Statements(store[t], records).ok
                    /\ store'[t] = Statements(store[t], records).table]_vars

\* the general metrics loader failed in its second batch: the first batch is in
\* the table, the third record is not
C27_Witness ==
    /\ load_state = "failed"
    /\ store["ads"] # << >>
    /\ Len(disk[Path(today, "general_metrics")]) = BATCH_SIZE + 1
    /\ Cardinality(DOMAIN store["general_metrics"]) = BATCH_SIZE
    /\ store["gender_metrics"] = << >>

\* the ids the CSV lists, the call is over, an absent id is listed twice
CsvIds == {df[k].id : k \in 1..Len(df)}
GeoEnded == g_pc \in {"returned", "raised"}
AbsentIdListedTwice ==
    \E j, k \in 1..Len(df) :
        j # k /\ df[j].id = df[k].id /\ df[j].id \notin DOMAIN geo_at_call
StoredRowsKept ==
    \A i \in DOMAIN geo_at_call :
        i \in DOMAIN geo_targets /\ geo_targets[i] = geo_at_call[i]

\* C28 (as stated): after a call every row stored before is unchanged, every id
\* of the CSV is stored, and no write was made when all CSV ids were stored.
C28_EveryCsvIdStoredAfterTheCall ==
    GeoEnded =>
        /\ StoredRowsKept
        /\ CsvIds \subseteq DOMAIN geo_targets
        /\ (CsvIds \subseteq DOMAIN geo_at_call) => geo_writes = 0

\* C28 (amended): no step changes or removes a stored row, and a call only adds
\* rows of the CSV.  A call raises exactly when the CSV lists twice an id that
\* was not stored; a call that returns has stored every CSV id; a call that finds
\* all CSV ids stored makes no write and returns, which is the case for a call that
\* repeats the CSV of a call that returned.
C28_AddsTheAbsentIdsOfACsvWithoutRepeats ==
    /\ [](GeoEnded =>
            /\ StoredRowsKept
            /\ \A i \in DOMAIN geo_targets \ DOMAIN geo_at_call :
                  i \in CsvIds /\ geo_targets[i] = GeoRow(i)
            /\ (g_pc = "raised") <=> AbsentIdListedTwice
            /\ (g_pc = "returned") => CsvIds \subseteq DOMAIN geo_targets
            /\ (CsvIds \subseteq DOMAIN geo_at_call) =>
                  (g_pc = "returned" /\ geo_writes = 0 /\ geo_targets = geo_at_call))
    /\ [][/\ \A i \in DOMAIN geo_targets :
                i \in DOMAIN geo_targets' /\ geo_targets'[i] = geo_targets[i]
          /\ (g_pc = "returned" /\ g_pc' = "select" /\ df' = df) =>
                (geo_at_call' = geo_targets /\ CsvIds \subseteq DOMAIN geo_at_call')]_vars

\* a call that found one CSV id stored and added two others in one batch
C28_Witness ==
    /\ g_pc = "returned"
    /\ Len(df) = 3
    /\ Cardinality(DOMAIN geo_at_call) = 1
    /\ DOMAIN geo_at_call \subseteq CsvIds
    /\ Cardinality(DOMAIN geo_targets) = 3
    /\ geo_writes = 1

\* the metrics records of one kind that any run wrote to a snapshot or loaded
MetricsRecordsSeen(kind) ==
    UNION {SeqRange(disk[p]) : p \in {q \in DOMAIN disk : q[2] = kind}}
    \cup {store[kind][i] : i \in DOMAIN store[kind]}
SameKey(r1, r2) == r1.campaign_id = r2.campaign_id /\ r1.date = r2.date

\* C29: two metrics records of one kind, from the same run or from two runs,
\* have the same id exactly when they have the same key.
C29_IdIsAFunctionOfTheKeyOnly ==
    \A kind \in MetricsSteps :
        \A r1, r2 \in MetricsRecordsSeen(kind) : (r1.id = r2.id) <=> SameKey(r1, r2)

\* the batches put one after the other
RECURSIVE Concatenated(_)
Concatenated(batches) ==
    IF batches = << >> THEN << >> ELSE Head(batches) \o Concatenated(Tail(batches))

\* C30: with n >= 1 the batches yielded so far, put together, are the items
\* consumed so far in order, each batch has between 1 and n items and each but the
\* latest has n; when the generator is exhausted they make up the whole sequence,
\* none for the empty sequence, and no error is raised.  With n < 1 the first
\* resumption raises ValueError and no batch is ever yielded.
C30_BatchesPartitionTheSequence ==
    /\ (batch_n >= 1 /\ b_pc # "idle") =>
          /\ Concatenated(yielded) \o it = iterable
          /\ \A k \in 1..Len(yielded) :
                /\ Len(yielded[k]) \in 1..batch_n
                /\ k < Len(yielded) => Len(yielded[k]) = batch_n
          /\ b_pc = "exhausted" =>
                /\ Concatenated(yielded) = iterable
                /\ iterable = << >> => yielded = << >>
                /\ yielded = batched(iterable, batch_n)
          /\ b_pc # "raised" /\ b_error = "None"
    /\ batch_n < 1 =>
          /\ yielded = << >>
          /\ b_pc \in {"created", "raised"}
          /\ b_pc = "raised" <=> b_error = "ValueError"

\* four items in batches of three: one full batch and a last batch of one
C30_Witness ==
    /\ b_pc = "exhausted"
    /\ batch_n = 3
    /\ Len(iterable) = 4
    /\ Len(yielded) = 2
    /\ Len(yielded[2]) = 1

====
